---- MODULE Spec2Model ----
(***************************************************************************)
(* syncal: one-way synchronisation of Google Calendar events into one      *)
(* iCloud calendar.  The model follows internal/syncer/syncer.go (Syncer,  *)
(* NewSyncer, Sync, fetchAllGoogleEvents, syncEvent, loadState, saveState),*)
(* the destination adapter internal/icloud/caldav.go (SyncEvent,           *)
(* GenerateUID) and the command loop of the sync command.                  *)
(*                                                                         *)
(* One process at a time runs: it is started (NewSyncer), runs cycles      *)
(* (Sync), and ends by returning, by a fatal error or by being killed.     *)
(* The state file sync-state.json and the destination calendar survive the *)
(* process.  A cycle is modelled step by step (one fetch, one syncEvent,   *)
(* the final save) so that a kill between two steps is a behaviour.        *)
(***************************************************************************)
EXTENDS Integers, Sequences, FiniteSets, TLC

\* ------------------------------------------------------------------ bounds
\* Events the sources return over the whole run, all cycles and processes
\* together.  Cycles and process starts are not counted: they repeat freely.
MaxFetched == 2

\* ------------------------------------------------------------- the inputs
\* Source event identifiers, in the byte order encoding/json sorts map keys.
KeyOrder == <<"g1", "g2">>
EventIDs == {KeyOrder[i] : i \in 1..Len(KeyOrder)}

\* A UID is a pair <<kind, n>>; the empty string is EmptyUID.
EmptyUID == <<"", 0>>

\* Time zones: the one events arrive in, and PRIMARY_TIMEZONE.
SourceZone == "source"
PrimaryTimeZone == "primary"

\* models.Event, reduced to the fields the orchestrator reads or writes.
Event(id, uid) == [ID |-> id, UID |-> uid, Loc |-> SourceZone]
\* The events toInternalEvents may hand over: g1 without iCalUID, and g1 and g2
\* carrying the same iCalUID (instances of one recurring event share it).
FetchedEvents == {Event("g1", EmptyUID), Event("g1", <<"ical", 1>>), Event("g2", <<"ical", 1>>)}

\* calendar.Event as Events.List returns it, reduced to the fields
\* toInternalEvents reads here: Start.DateTime is "" for an all-day event
\* (which carries Start.Date instead) and a timestamp, "t", otherwise.
GoogleItem(id, uid, dt) == [Id |-> id, ICalUID |-> uid, DateTime |-> dt]
\* The timed items behind FetchedEvents.
TimedItems == {GoogleItem(e.ID, e.UID, "t") : e \in FetchedEvents}
\* A calendar on which g1 is an all-day event and g2 a timed one.
ItemsWithAllDay ==
    {GoogleItem("g1", <<"ical", 2>>, ""), GoogleItem("g2", <<"ical", 1>>, "t"),
     GoogleItem("g2", EmptyUID, "t")}

\* The accounts (one CalendarClient each) and the calendar-ID argument:
\* a list whose elements are comma-separated lists of calendar IDs.
googleClients == <<"acct1", "acct2">>
\* The sync command hands NewSyncer the one-element list []string{gClientIDs}.
CommandCalIDs == << <<"primary">> >>
\* A caller of NewSyncer may hand it a list of several elements, here
\* "primary,work" and "family".
LibraryCalIDs == << <<"primary", "work">>, <<"family">> >>

\* Sequences over S of length at most n.
SeqsUpTo(S, n) == UNION {[1..k -> S] : k \in 0..n}

VARIABLES
    file,        \* sync-state.json: [exists, data], data a sequence of JSON tokens
    dest,        \* the iCloud calendar: resource UID -> source ID of the stored event
    pc,          \* "down", "ready", "fetch", "sync", "finished"
    exitCode,    \* how the last process ended: "none", "ok", "fatal", "killed", "panic"
    dryRun,      \* Syncer.dryRun
    watch,       \* the --watch flag was given
    once,        \* the --once flag was given
    watchLoop,   \* the command took the watch-loop branch
    tick,        \* a tick waits in ticker.C (a channel of capacity one)
    googleCalIDs, \* Syncer.googleCalIDs, as handed to NewSyncer
    syncErr,     \* the error Sync returned (FALSE: nil)
    saved,       \* the saveState call of this cycle: "none", "ok", "err"
    state,       \* Syncer.state (SyncState); the empty function when nil
    stateNil,    \* Syncer.state is a nil map
    allEvents,   \* the googleEvents of the running cycle
    srcIdx,      \* next source to fetch (position in Sources)
    evIdx,       \* next event to hand to syncEvent
    fetchFailures, \* the sources (positions in Sources) whose fetch failed in this cycle
    log,         \* this cycle's syncEvent results, one record per event
    state0,      \* Syncer.state when the cycle began (before the first: as loaded)
    lastCycle,   \* summary of the most recently begun cycle
    prevCycle,   \* summary of the cycle begun before it
    invoked,     \* ID -> SyncEvent invocations, over the whole run
    succ,        \* ID -> SyncEvent invocations that returned nil, whole run
    okThisProc,  \* ID -> SyncEvent invocations that returned nil, this process
    lost,        \* ID -> process ends that left a created ID out of the file
    genCount,    \* UUIDs handed out so far
    fetched,     \* items the sources have returned so far
    dropped      \* identifiers of the items this cycle's fetches skipped as all-day

vars == <<file, dest, pc, exitCode, dryRun, watch, once, watchLoop, tick, googleCalIDs,
          syncErr, saved, state, stateNil, allEvents,
          srcIdx, evIdx, fetchFailures, log, state0, lastCycle, prevCycle,
          invoked, succ, okThisProc, lost, genCount, fetched, dropped>>

\* ------------------------------------------------------------ SyncState
EmptyState == [k \in {} |-> EmptyUID]
\* s.state[k] = v
Put(st, k, v) == [x \in (DOMAIN st) \cup {k} |-> IF x = k THEN v ELSE st[x]]

\* ------------------------------------------------- JSON text of the state
LBrace == [t |-> "{", k |-> "", v |-> EmptyUID]
RBrace == [t |-> "}", k |-> "", v |-> EmptyUID]
NullTok == [t |-> "null", k |-> "", v |-> EmptyUID]
PairTokKeyOnly(k, v) == [t |-> "pair", k |-> k, v |-> EmptyUID]
PairTok(k, v) == [t |-> "pair", k |-> k, v |-> v]

\* The keys of st in sorted order.
SortedKeys(st) == SelectSeq(KeyOrder, LAMBDA k : k \in DOMAIN st)

\* json.MarshalIndent(s.state, "", "  "): a nil map encodes as null, a map as
\* an object whose members are sorted by key.
MarshalIndentEmptyObject(st, isNil) == <<LBrace, RBrace>>
MarshalIndent(st, isNil) ==
    IF isNil THEN <<NullTok>>
    ELSE LET ks == SortedKeys(st)
         IN  <<LBrace>> \o [i \in 1..Len(ks) |-> PairTok(ks[i], st[ks[i]])] \o <<RBrace>>

\* json.Unmarshal(data, &state) into a nil SyncState.
WellFormedObject(data) ==
    /\ Len(data) >= 2
    /\ data[1] = LBrace
    /\ data[Len(data)] = RBrace
    /\ \A i \in 2..(Len(data) - 1) : data[i].t = "pair"

ObjectMembers(data) ==
    LET ks == {data[i].k : i \in 2..(Len(data) - 1)}
        Last(k) == CHOOSE i \in 2..(Len(data) - 1) :
                       /\ data[i].k = k
                       /\ \A j \in 2..(Len(data) - 1) : data[j].k = k => j <= i
    IN  [k \in ks |-> data[Last(k)].v]

Unmarshal(data) ==
    IF data = <<NullTok>> THEN [err |-> FALSE, nil |-> TRUE, m |-> EmptyState]
    ELSE IF WellFormedObject(data)
         THEN [err |-> FALSE, nil |-> FALSE, m |-> ObjectMembers(data)]
         ELSE [err |-> TRUE, nil |-> TRUE, m |-> EmptyState]

\* loadState: os.ReadFile, then json.Unmarshal.  rd is what the read does.
loadState(f, rd) ==
    IF ~f.exists THEN [err |-> "notexist", nil |-> TRUE, m |-> EmptyState]
    ELSE IF rd # "ok" THEN [err |-> "read", nil |-> TRUE, m |-> EmptyState]
    ELSE LET u == Unmarshal(f.data)
         IN  [err |-> IF u.err THEN "syntax" ELSE "none", nil |-> u.nil, m |-> u.m]

\* The keys a new process would find in the file.
PersistedKeys(f) ==
    IF f.exists /\ ~Unmarshal(f.data).err THEN DOMAIN Unmarshal(f.data).m ELSE {}


\* --------------------------------------------------------------- sources
\* strings.Split(s.googleCalIDs[0], ","): only the first element is read.
calendarIDs == googleCalIDs[1]

\* The (client, calendar) pairs in the order of the nested loops.
SourcesCalendarMajor ==
    [i \in 1..(Len(googleClients) * Len(calendarIDs)) |->
        [client |-> googleClients[((i - 1) % Len(googleClients)) + 1],
         cal |-> calendarIDs[((i - 1) \div Len(googleClients)) + 1]]]
Sources ==
    [i \in 1..(Len(googleClients) * Len(calendarIDs)) |->
        [client |-> googleClients[((i - 1) \div Len(calendarIDs)) + 1],
         cal |-> calendarIDs[((i - 1) % Len(calendarIDs)) + 1]]]

\* What GetUpcomingEvents(calID, 7) may return when room events still fit.
FetchResultsOf(items, room) ==
    {[ok |-> FALSE, items |-> <<>>]} \cup
    {[ok |-> TRUE, items |-> es] : es \in SeqsUpTo(items, room)}
FetchResults(room) == FetchResultsOf(TimedItems, room)

\* toInternalEvents: an item without Start.DateTime is skipped, every other
\* item is converted, in order.
toInternalEventsKeepAll(items) ==
    [i \in 1..Len(items) |-> Event(items[i].Id, items[i].ICalUID)]
toInternalEvents(items) ==
    LET timed == SelectSeq(items, LAMBDA it : it.DateTime # "")
    IN  [i \in 1..Len(timed) |-> Event(timed[i].Id, timed[i].ICalUID)]

\* The identifiers of the items toInternalEvents receives without Start.DateTime.
AllDayIDs(items) ==
    LET allDay == SelectSeq(items, LAMBDA it : it.DateTime = "")
    IN  [i \in 1..Len(allDay) |-> allDay[i].Id]

\* GetUpcomingEvents(calID, 7): the error of Events.List, or the converted items.
GetUpcomingEvents(res) ==
    [ok |-> res.ok, events |-> IF res.ok THEN toInternalEvents(res.items) ELSE <<>>]

\* One pass of the inner loop of fetchAllGoogleEvents: a failed fetch is logged
\* and skipped (continue), a successful one is appended; the function itself
\* never returns an error.
fetchStepAbort(all, res) == [events |-> all, err |-> ~res.ok]
fetchStep(all, res) ==
    [events |-> IF res.ok THEN all \o res.events ELSE all, err |-> FALSE]

\* ----------------------------------------------------------- destination
\* What one CalDAVClient.SyncEvent call can meet:
\*   "ok"        the PUT completed, the resource exists;
\*   "openErr"   webdavClient.Create returned an error;
\*   "encodeErr" the encoder's write to the upload failed;
\*   "closeErr"  the upload was refused and only writer.Close() reports it.
DestOutcomes == {"ok", "openErr", "encodeErr", "closeErr"}

\* CalDAVClient.SyncEvent: err is what it returns, stored whether the resource
\* <UID>.ics now exists.  writer.Close() runs deferred and its error is dropped.
CalDAVSyncEvent(out) ==
    [err |-> out \in {"openErr", "encodeErr"}, stored |-> out = "ok"]

\* uuid.New().String(): the n-th identifier handed out, never the empty string.
GenerateUIDEmpty(n) == EmptyUID
GenerateUID(n) == <<"uuid", n>>

\* ------------------------------------------------------------- syncEvent
\* if _, exists := s.state[event.ID]; exists
AlreadySyncedByUID(st, ev) == \E k \in DOMAIN st : st[k] = ev.UID
AlreadySyncedNever(st, ev) == FALSE
AlreadySynced(st, ev) == ev.ID \in DOMAIN st

\* if event.UID == "" { event.UID = icloud.GenerateUID() }
EnsureUIDKeep(ev, n) == ev
EnsureUID(ev, n) ==
    IF ev.UID = EmptyUID THEN [ev EXCEPT !.UID = GenerateUID(n)] ELSE ev

\* event.StartTime.In(tz), event.EndTime.In(tz)
InPrimaryZone(ev) == [ev EXCEPT !.Loc = PrimaryTimeZone]

\* if s.dryRun { ...; return nil }
StopsAtDryRunNever(dry) == FALSE
StopsAtDryRun(dry) == dry

\* s.state[event.ID] = event.UID
RecordMappingDropped(st, ev) == st
RecordMappingOnly(st, ev) == [x \in {ev.ID} |-> ev.UID]
RecordMapping(st, ev) == Put(st, ev.ID, ev.UID)

\* The destination outcomes syncEvent can meet for ev: none when it returns
\* before the SyncEvent call.
OutcomesFor(st, dry, ev) ==
    IF AlreadySynced(st, ev) \/ StopsAtDryRun(dry) THEN {"none"} ELSE DestOutcomes

\* syncEvent(ctx, event) on state st (nil when isNil), with n UUIDs handed out
\* before it and out what the destination does.  event is the event as the
\* function leaves it (it is passed by pointer), record whether line 137 is
\* reached, panic whether that assignment hits a nil map.
syncEvent(st, isNil, dry, ev, n, out) ==
    IF AlreadySynced(st, ev)
    THEN [event |-> ev, op |-> "skip", called |-> FALSE, err |-> FALSE,
          stored |-> FALSE, record |-> FALSE, panic |-> FALSE, state |-> st]
    ELSE LET e2 == InPrimaryZone(EnsureUID(ev, n + 1))
         IN  IF StopsAtDryRun(dry)
             THEN [event |-> e2, op |-> "dryrun", called |-> FALSE, err |-> FALSE,
                   stored |-> FALSE, record |-> FALSE, panic |-> FALSE, state |-> st]
             ELSE LET r == CalDAVSyncEvent(out)
                  IN  [event |-> e2, op |-> "create", called |-> TRUE, err |-> r.err,
                       stored |-> r.stored,
                       record |-> ~r.err /\ ~isNil,
                       panic |-> ~r.err /\ isNil,
                       state |-> IF ~r.err /\ ~isNil THEN RecordMapping(st, e2) ELSE st]

\* ------------------------------------------------------------- saveState
\* if !s.dryRun { s.saveState() }
SavesStateAlways(dry) == TRUE
SavesStateNever(dry) == FALSE
SavesState(dry) == ~dry

\* Where an interrupted write can stop.  Every proper prefix of the text fails
\* to parse alike, so the model takes the shortest and the longest one.
TruncationPoints(data) == {0, Len(data) - 1}

\* What os.WriteFile(stateFile, data, 0644) can do: write everything; fail to
\* open (file untouched); or fail after truncating, leaving the first n tokens.
WriteOutcomes(data) ==
    {[kind |-> "ok", n |-> Len(data)], [kind |-> "openErr", n |-> 0]} \cup
    {[kind |-> "shortWrite", n |-> n] : n \in TruncationPoints(data)}

WriteFile(f, data, wr) ==
    IF wr.kind = "openErr" THEN f
    ELSE [exists |-> TRUE, data |-> SubSeq(data, 1, wr.n)]

\* saveState: marshal, then write; err is what it returns.
saveState(f, st, isNil, wr) ==
    [file |-> WriteFile(f, MarshalIndent(st, isNil), wr), err |-> wr.kind # "ok"]

\* -------------------------------------------------------------- NewSyncer
\* NewSyncer: a missing file starts an empty state, any other load error is
\* returned and no Syncer exists.
NewSyncerLenient(f, rd) ==
    LET r == loadState(f, rd)
    IN  IF r.err # "none"
        THEN [err |-> FALSE, state |-> EmptyState, nil |-> FALSE]
        ELSE [err |-> FALSE, state |-> r.m, nil |-> r.nil]
NewSyncer(f, rd) ==
    LET r == loadState(f, rd)
    IN  IF r.err = "notexist"
        THEN [err |-> FALSE, state |-> EmptyState, nil |-> FALSE]
        ELSE IF r.err # "none"
        THEN [err |-> TRUE, state |-> EmptyState, nil |-> TRUE]
        ELSE [err |-> FALSE, state |-> r.m, nil |-> r.nil]


\* ------------------------------------------------------- Sync's result
\* Sync returns an error only when fetchAllGoogleEvents returned one; a
\* saveState error is logged and Sync returns nil.
SyncReturnSaveErr(fetchErr, saveErr) == fetchErr \/ saveErr
SyncReturn(fetchErr, saveErr) == fetchErr

\* ------------------------------------------------------ the sync command
\* if c.IsSet("watch") { watch loop } else { one cycle }: --once is not read.
WatchModeUnlessOnce(onceFlag, watchSet) == watchSet /\ ~onceFlag
WatchMode(onceFlag, watchSet) == watchSet

\* The values of --watch N the model draws from: the default and zero.
DefaultWatchSeconds == 300
WatchSeconds == {DefaultWatchSeconds, 0}
\* time.NewTicker(interval) panics when the interval is not positive.
NewTickerPanics(n) == n <= 0

\* Where the command calls Sync: once after NewSyncer (in both modes), and in
\* the watch loop, for ; true; <-ticker.C, when the previous call has returned
\* and a tick is received.
CallsSyncAtTick(p, w, t) == p = "ready" \/ (p \in {"fetch", "sync", "finished"} /\ w /\ t)
CallsSync(p, w, t) == p = "ready" \/ (p = "finished" /\ w /\ t)

\* The exit of the single-cycle branch: a Sync error is returned to the cli
\* runner (exit 1), else the action returns nil.
ExitCodeOf(err) == IF err THEN "fatal" ELSE "ok"

\* ---------------------------------------------------------- bookkeeping
ZeroCount == [id \in EventIDs |-> 0]
\* clean: the cycle was not a dry run, ran to its end, no SyncEvent call
\* returned an error and its save succeeded; ids: the identifiers it fetched.
NoCycle == [clean |-> FALSE, ids |-> {}]

\* The log line of one syncEvent call.
LogEntry(ev, r) ==
    [id |-> ev.ID, srcUID |-> ev.UID, uid |-> r.event.UID, op |-> r.op,
     err |-> r.err, stored |-> r.stored, recorded |-> r.record]

\* The process is gone: its memory with it.  f2 is the file it leaves.
ProcEnd(f2, code) ==
    /\ pc' = "down"
    /\ exitCode' = code
    /\ file' = f2
    /\ state' = EmptyState
    /\ stateNil' = FALSE
    /\ dryRun' = FALSE
    /\ watch' = FALSE
    /\ once' = FALSE
    /\ watchLoop' = FALSE
    /\ tick' = FALSE
    /\ googleCalIDs' = googleCalIDs
    /\ syncErr' = FALSE
    /\ saved' = "none"
    /\ dropped' = <<>>
    /\ allEvents' = <<>>
    /\ srcIdx' = 0
    /\ evIdx' = 0
    /\ fetchFailures' = {}
    /\ log' = <<>>
    /\ state0' = EmptyState
    /\ prevCycle' = NoCycle

LostAt(f2, okp) ==
    [id \in EventIDs |->
        lost[id] + (IF okp[id] > 0 /\ id \notin PersistedKeys(f2) THEN 1 ELSE 0)]

\* ------------------------------------------------------------------ Init
\* No process runs.  Either nothing was ever synced (no state file, empty
\* calendar), or an earlier run of the sync command has synced event g2 and
\* saved its mapping: the state that run leaves behind.
SyncedBefore == [g2 |-> <<"ical", 1>>]

NoProcess(calIDs) ==
    /\ pc = "down"
    /\ dryRun = FALSE
    /\ watch = FALSE
    /\ once = FALSE
    /\ watchLoop = FALSE
    /\ tick = FALSE
    /\ googleCalIDs = calIDs
    /\ syncErr = FALSE
    /\ saved = "none"
    /\ dropped = <<>>
    /\ state = EmptyState
    /\ stateNil = FALSE
    /\ allEvents = <<>>
    /\ srcIdx = 0
    /\ evIdx = 0
    /\ fetchFailures = {}
    /\ log = <<>>
    /\ state0 = EmptyState
    /\ prevCycle = NoCycle
    /\ okThisProc = ZeroCount
    /\ lost = ZeroCount
    /\ genCount = 0
    /\ fetched = 0

InitWith(calIDs) ==
    /\ NoProcess(calIDs)
    /\ \E before \in BOOLEAN :
          IF before
          THEN /\ file = [exists |-> TRUE, data |-> MarshalIndent(SyncedBefore, FALSE)]
               /\ dest = [u \in {SyncedBefore.g2} |-> "g2"]
               /\ exitCode = "ok"
               /\ lastCycle = [clean |-> TRUE, ids |-> {"g2"}]
               /\ invoked = [ZeroCount EXCEPT !.g2 = 1]
               /\ succ = [ZeroCount EXCEPT !.g2 = 1]
          ELSE /\ file = [exists |-> FALSE, data |-> <<>>]
               /\ dest = EmptyState
               /\ exitCode = "none"
               /\ lastCycle = NoCycle
               /\ invoked = ZeroCount
               /\ succ = ZeroCount

Init == InitWith(CommandCalIDs)

\* --------------------------------------------------------------- actions
\* The sync command: flags read, NewSyncer called, the run mode chosen and, for
\* the watch loop, the ticker made.  On a load error the command returns the
\* error and the process exits 1 without a Syncer; a panic of NewTicker ends
\* the process before the first cycle.
Start(dry, o, w, n, rd) ==
    /\ pc = "down"
    /\ LET r == NewSyncer(file, rd)
           panic == ~r.err /\ WatchMode(o, w) /\ NewTickerPanics(n)
           gone == r.err \/ panic
       IN  /\ pc' = IF gone THEN "down" ELSE "ready"
           /\ exitCode' = IF r.err THEN "fatal" ELSE IF panic THEN "panic" ELSE "none"
           /\ state' = IF gone THEN EmptyState ELSE r.state
           /\ state0' = IF gone THEN EmptyState ELSE r.state
           /\ stateNil' = IF gone THEN FALSE ELSE r.nil
           /\ dryRun' = IF gone THEN FALSE ELSE dry
           /\ watch' = IF gone THEN FALSE ELSE w
           /\ once' = IF gone THEN FALSE ELSE o
           /\ watchLoop' = IF gone THEN FALSE ELSE WatchMode(o, w)
    /\ okThisProc' = ZeroCount
    /\ log' = <<>>
    /\ UNCHANGED <<file, dest, tick, googleCalIDs, syncErr, saved, allEvents,
                   srcIdx, evIdx, fetchFailures, lastCycle, prevCycle, invoked,
                   succ, lost, genCount, fetched, dropped>>

\* Sync is entered: at once after NewSyncer, and in watch mode again at each
\* tick after the previous call has returned.
BeginCycle ==
    /\ CallsSync(pc, watchLoop, tick)
    /\ pc' = "fetch"
    /\ tick' = IF pc = "ready" THEN tick ELSE FALSE
    /\ syncErr' = FALSE
    /\ saved' = "none"
    /\ dropped' = <<>>
    /\ allEvents' = <<>>
    /\ srcIdx' = 1
    /\ evIdx' = 0
    /\ fetchFailures' = {}
    /\ log' = <<>>
    /\ state0' = state
    /\ prevCycle' = lastCycle
    /\ lastCycle' = NoCycle
    /\ UNCHANGED <<file, dest, exitCode, dryRun, watch, once, watchLoop, googleCalIDs,
                   state, stateNil, invoked, succ, okThisProc, lost, genCount,
                   fetched>>

\* The ticker fires while the watch loop runs: the tick waits in the channel
\* until the loop receives it; a tick that finds one waiting is dropped.
Tick ==
    /\ pc \in {"fetch", "sync", "finished"}
    /\ watchLoop
    /\ ~tick
    /\ tick' = TRUE
    /\ UNCHANGED <<file, dest, pc, exitCode, dryRun, watch, once, watchLoop, googleCalIDs,
                   syncErr, saved, state, stateNil, allEvents, srcIdx, evIdx,
                   fetchFailures, log, state0, lastCycle, prevCycle, invoked,
                   succ, okThisProc, lost, genCount, fetched, dropped>>

\* One GetUpcomingEvents call of fetchAllGoogleEvents, for source srcIdx.
FetchSource(res) ==
    /\ pc = "fetch"
    /\ srcIdx <= Len(Sources)
    /\ LET r == fetchStep(allEvents, GetUpcomingEvents(res))
       IN  /\ allEvents' = r.events
           /\ fetched' = fetched + Len(res.items)
           /\ dropped' = dropped \o AllDayIDs(res.items)
           /\ fetchFailures' = IF res.ok THEN fetchFailures ELSE fetchFailures \cup {srcIdx}
           /\ IF r.err
              THEN /\ pc' = "finished"
                   /\ srcIdx' = srcIdx
                   /\ evIdx' = 0
                   /\ syncErr' = SyncReturn(TRUE, FALSE)
              ELSE /\ pc' = IF srcIdx = Len(Sources) THEN "sync" ELSE "fetch"
                   /\ srcIdx' = srcIdx + 1
                   /\ evIdx' = IF srcIdx = Len(Sources) THEN 1 ELSE 0
                   /\ syncErr' = syncErr
    /\ UNCHANGED <<file, dest, exitCode, dryRun, watch, once, watchLoop, tick, googleCalIDs,
                   saved, lastCycle, state, stateNil, log,
                   state0, prevCycle, invoked, succ, okThisProc, lost, genCount>>

\* One pass of the loop of Sync: syncEvent on allEvents[evIdx]; an error it
\* returns is logged and the loop goes on.  A write to a nil map ends the process.
SyncEventStep(out) ==
    /\ pc = "sync"
    /\ evIdx <= Len(allEvents)
    /\ LET ev == allEvents[evIdx]
           r == syncEvent(state, stateNil, dryRun, ev, genCount, out)
           okp == IF r.called /\ ~r.err
                  THEN [okThisProc EXCEPT ![ev.ID] = @ + 1] ELSE okThisProc
       IN  /\ out \in OutcomesFor(state, dryRun, ev)
           /\ genCount' = IF r.event.UID # ev.UID THEN genCount + 1 ELSE genCount
           /\ invoked' = IF r.called THEN [invoked EXCEPT ![ev.ID] = @ + 1] ELSE invoked
           /\ succ' = IF r.called /\ ~r.err THEN [succ EXCEPT ![ev.ID] = @ + 1] ELSE succ
           /\ dest' = IF r.stored THEN Put(dest, r.event.UID, ev.ID) ELSE dest
           /\ IF r.panic
              THEN /\ ProcEnd(file, "panic")
                   /\ okThisProc' = ZeroCount
                   /\ lost' = LostAt(file, okp)
              ELSE /\ state' = r.state
                   /\ log' = Append(log, LogEntry(ev, r))
                   /\ allEvents' = [allEvents EXCEPT ![evIdx] = r.event]
                   /\ evIdx' = evIdx + 1
                   /\ okThisProc' = okp
                   /\ UNCHANGED <<file, pc, exitCode, dryRun, watch, once, watchLoop, tick,
                                  googleCalIDs, syncErr, saved, stateNil, srcIdx,
                                  fetchFailures, state0, prevCycle, lost, dropped>>
    /\ UNCHANGED <<lastCycle, fetched>>

\* The end of Sync: the state is saved unless dry-run, a save error is logged,
\* and Sync returns nil.
EndCycle(wr) ==
    /\ pc = "sync"
    /\ evIdx > Len(allEvents)
    /\ IF SavesState(dryRun)
       THEN /\ wr \in WriteOutcomes(MarshalIndent(state, stateNil))
            /\ file' = saveState(file, state, stateNil, wr).file
            /\ saved' = IF saveState(file, state, stateNil, wr).err THEN "err" ELSE "ok"
            /\ syncErr' = SyncReturn(FALSE, saveState(file, state, stateNil, wr).err)
       ELSE /\ wr = [kind |-> "none", n |-> 0]
            /\ file' = file
            /\ saved' = "none"
            /\ syncErr' = SyncReturn(FALSE, FALSE)
    /\ pc' = "finished"
    /\ fetchFailures' = {}
    /\ lastCycle' = IF /\ ~dryRun
                       /\ wr.kind = "ok"
                       /\ \A i \in 1..Len(log) : ~log[i].err
                    THEN [clean |-> TRUE,
                          ids |-> {allEvents[i].ID : i \in 1..Len(allEvents)}]
                    ELSE NoCycle
    /\ UNCHANGED <<dest, exitCode, dryRun, watch, once, watchLoop, tick, googleCalIDs,
                   state, stateNil, allEvents, srcIdx, evIdx, log, state0,
                   prevCycle, invoked, succ, okThisProc, lost, genCount, fetched,
                   dropped>>

\* Outside the watch loop the command returns after its one cycle.
Exit ==
    /\ pc = "finished"
    /\ ~watchLoop
    /\ ProcEnd(file, ExitCodeOf(syncErr))
    /\ lost' = LostAt(file, okThisProc)
    /\ okThisProc' = ZeroCount
    /\ UNCHANGED <<dest, lastCycle, invoked, succ, genCount,
                   fetched>>

\* The process is killed (signal, power loss) between two steps.
Crash ==
    /\ pc \in {"ready", "fetch", "sync", "finished"}
    /\ ProcEnd(file, "killed")
    /\ lost' = LostAt(file, okThisProc)
    /\ okThisProc' = ZeroCount
    /\ UNCHANGED <<dest, lastCycle, invoked, succ, genCount,
                   fetched>>

\* The process is killed inside os.WriteFile: the file was truncated on open
\* and holds the first n tokens of the new text.
CrashDuringSave(n) ==
    /\ pc = "sync"
    /\ evIdx > Len(allEvents)
    /\ SavesState(dryRun)
    /\ n \in TruncationPoints(MarshalIndent(state, stateNil))
    /\ LET f2 == [exists |-> TRUE, data |-> SubSeq(MarshalIndent(state, stateNil), 1, n)]
       IN  /\ ProcEnd(f2, "killed")
           /\ lost' = LostAt(f2, okThisProc)
    /\ okThisProc' = ZeroCount
    /\ UNCHANGED <<dest, lastCycle, invoked, succ, genCount,
                   fetched>>

MaxTokens == Len(KeyOrder) + 2

Next ==
    \/ \E dry \in BOOLEAN, w \in BOOLEAN, rd \in {"ok", "ioerr"} :
          Start(dry, FALSE, w, DefaultWatchSeconds, rd)
    \/ BeginCycle
    \/ Tick
    \/ \E res \in FetchResults(MaxFetched - fetched) : FetchSource(res)
    \/ \E out \in DestOutcomes \cup {"none"} : SyncEventStep(out)
    \/ \E wr \in WriteOutcomes(MarshalIndent(state, stateNil)) \cup
                 {[kind |-> "none", n |-> 0]} : EndCycle(wr)
    \/ Exit
    \/ Crash
    \/ \E n \in 0..MaxTokens : CrashDuringSave(n)

Spec == Init /\ [][Next]_vars

\* The command with every combination of --once and --watch, on a fresh
\* install (no dry run, a readable state file).
InitFlags == Init /\ ~file.exists

NextFlags ==
    \/ \E o \in BOOLEAN, w \in BOOLEAN, n \in WatchSeconds : Start(FALSE, o, w, n, "ok")
    \/ BeginCycle
    \/ Tick
    \/ \E res \in FetchResults(MaxFetched - fetched) : FetchSource(res)
    \/ \E out \in DestOutcomes \cup {"none"} : SyncEventStep(out)
    \/ \E wr \in WriteOutcomes(MarshalIndent(state, stateNil)) \cup
                 {[kind |-> "none", n |-> 0]} : EndCycle(wr)
    \/ Exit
    \/ Crash
    \/ \E n \in 0..MaxTokens : CrashDuringSave(n)

SpecFlags == InitFlags /\ [][NextFlags]_vars

\* A Syncer built, on a fresh install, by a caller that hands NewSyncer a list
\* of two elements and calls Sync once (no dry run, a readable state file).
InitLibrary == InitWith(LibraryCalIDs) /\ ~file.exists

NextLibrary ==
    \/ Start(FALSE, FALSE, FALSE, DefaultWatchSeconds, "ok")
    \/ BeginCycle
    \/ \E res \in FetchResults(MaxFetched - fetched) : FetchSource(res)
    \/ \E out \in DestOutcomes \cup {"none"} : SyncEventStep(out)
    \/ \E wr \in WriteOutcomes(MarshalIndent(state, stateNil)) \cup
                 {[kind |-> "none", n |-> 0]} : EndCycle(wr)
    \/ Exit
    \/ Crash
    \/ \E n \in 0..MaxTokens : CrashDuringSave(n)

SpecLibrary == InitLibrary /\ [][NextLibrary]_vars


\* The command on an install whose state file holds the JSON text null and
\* whose calendar is empty.
InitNull ==
    /\ NoProcess(CommandCalIDs)
    /\ file = [exists |-> TRUE, data |-> <<NullTok>>]
    /\ dest = EmptyState
    /\ exitCode = "none"
    /\ lastCycle = NoCycle
    /\ invoked = ZeroCount
    /\ succ = ZeroCount

SpecNull == InitNull /\ [][Next]_vars

\* A single-cycle command on a fresh install whose calendars hold an all-day
\* event beside timed ones (no dry run, a readable state file).
InitAllDay == Init /\ file = [exists |-> FALSE, data |-> <<>>]

NextAllDay ==
    \/ Start(FALSE, FALSE, FALSE, DefaultWatchSeconds, "ok")
    \/ BeginCycle
    \/ \E res \in FetchResultsOf(ItemsWithAllDay, MaxFetched - fetched) : FetchSource(res)
    \/ \E out \in DestOutcomes \cup {"none"} : SyncEventStep(out)
    \/ \E wr \in WriteOutcomes(MarshalIndent(state, stateNil)) \cup
                 {[kind |-> "none", n |-> 0]} : EndCycle(wr)
    \/ Exit
    \/ Crash
    \/ \E n \in 0..MaxTokens : CrashDuringSave(n)

SpecAllDay == InitAllDay /\ [][NextAllDay]_vars


\* ================================================================ claims
\* Helpers of the formulas.
LogIdx == 1..Len(log)
\* syncEvent is about to run on allEvents[evIdx].
AtEvent == pc = "sync" /\ evIdx <= Len(allEvents)
\* The loop of Sync has handled every fetched event.
LoopDone == pc = "finished" \/ (pc = "sync" /\ evIdx > Len(allEvents))
\* The step is one syncEvent call that returned.
SyncEventReturned == AtEvent /\ evIdx' = evIdx + 1
\* The identifiers this cycle added to the state.
AddedKeys == (DOMAIN state) \ (DOMAIN state0)

\* C1 -- Dedup: a syncEvent call on an event whose source identifier is a key
\* of the state invokes no destination create and changes neither the state,
\* the destination nor the state file.
C1_Dedup ==
    [][(SyncEventReturned /\ allEvents[evIdx].ID \in DOMAIN state)
        => /\ invoked' = invoked
           /\ succ' = succ
           /\ dest' = dest
           /\ state' = state
           /\ file' = file
           /\ log'[Len(log')].op = "skip"]_vars

\* C1 witness: an event whose identifier is a key of the state was skipped.
C1_Witness ==
    /\ pc = "sync"
    /\ Len(log) >= 1
    /\ log[Len(log)].op = "skip"
    /\ log[Len(log)].id \in DOMAIN state

\* C2 as stated -- the destination create is invoked at most once per source
\* event identifier over the whole life of the state store.
C2_AtMostOneInvocation == \A id \in EventIDs : invoked[id] <= 1

\* C2 amended -- per identifier the create reports success at most once in a
\* process, and over all processes at most once more than the number of times
\* a process ended with the identifier created but missing from the state file.
C2_AtMostOneSuccessPerRecordedMapping ==
    \A id \in EventIDs :
        /\ okThisProc[id] <= 1
        /\ succ[id] <= 1 + lost[id]

\* C2 witness: an identifier whose create was invoked again (after a failure or
\* a lost mapping) and has reported success once in the running process.
C2_Witness ==
    \E id \in EventIDs :
        /\ invoked[id] >= 2
        /\ okThisProc[id] = 1
        /\ id \in DOMAIN state

\* C3 -- Idempotence: after a non-dry-run cycle that ran to its end with no
\* create error and a successful save, the next cycle (same or new process)
\* over identifiers that cycle fetched performs no create and leaves the state
\* as it found it.
C3_Idempotence ==
    (/\ pc = "finished"
     /\ prevCycle.clean
     /\ {allEvents[i].ID : i \in 1..Len(allEvents)} \subseteq prevCycle.ids)
    => /\ Len(log) = Len(allEvents)
       /\ \A i \in LogIdx : log[i].op # "create"
       /\ state = state0

\* C3 witness: a non-dry-run second cycle over the events of a clean first one.
C3_Witness ==
    /\ pc = "finished"
    /\ ~dryRun
    /\ prevCycle.clean
    /\ "g1" \in prevCycle.ids
    /\ Len(allEvents) >= 1
    /\ {allEvents[i].ID : i \in 1..Len(allEvents)} \subseteq prevCycle.ids
    /\ \A i \in LogIdx : log[i].op = "skip"

\* C4 -- Dry-run purity: no step of a dry-run process invokes a destination
\* create, changes the destination or writes the state file, and no step it
\* survives changes the in-memory state.
C4_DryRunPurity ==
    [][(dryRun /\ pc # "down")
        => /\ invoked' = invoked
           /\ dest' = dest
           /\ file' = file
           /\ (pc' # "down" => state' = state /\ stateNil' = stateNil)]_vars

\* C4 witness: a dry-run cycle that met a new event has finished.
C4_Witness ==
    /\ dryRun
    /\ pc = "finished"
    /\ \E i \in LogIdx : log[i].op = "dryrun"

\* C5 -- Partial-failure isolation: a fetch step (a step of the fetch phase
\* that is not the ticker's) is as follows.  A failed fetch leaves the collected events
\* as they are and the loop goes to the next source, a successful fetch appends
\* what it returned, every source has been attempted when the fetch phase is
\* over, and then every collected event is handed to syncEvent: skipped when its
\* identifier is a key, else (no dry run) created, and recorded once created.
C5_PartialFailureIsolation ==
    [][/\ (pc = "fetch" /\ pc' # "down" /\ tick' = tick)
            => /\ srcIdx' = srcIdx + 1
               /\ pc' = (IF srcIdx = Len(Sources) THEN "sync" ELSE "fetch")
               /\ Len(allEvents') = Len(allEvents) + (fetched' - fetched)
               /\ SubSeq(allEvents', 1, Len(allEvents)) = allEvents
               /\ (fetchFailures' # fetchFailures => allEvents' = allEvents)
       /\ pc' \in {"sync", "finished"} => srcIdx' = Len(Sources) + 1
       /\ LoopDone'
            => /\ Len(log') = Len(allEvents')
               /\ \A i \in 1..Len(log') :
                     /\ log'[i].id = allEvents'[i].ID
                     /\ log'[i].op = "skip" => log'[i].id \in DOMAIN state'
                     /\ ~dryRun' => log'[i].op \in {"skip", "create"}
                     /\ (log'[i].op = "create" /\ log'[i].stored)
                           => /\ log'[i].recorded
                              /\ log'[i].id \in DOMAIN state'
                              /\ log'[i].uid \in DOMAIN dest']_vars

\* C5 witness: the first source failed, and an event the second source returned
\* was created and recorded.
C5_Witness ==
    /\ pc = "sync"
    /\ evIdx > Len(allEvents)
    /\ fetchFailures = {1}
    /\ \E i \in LogIdx : log[i].op = "create" /\ log[i].stored /\ log[i].recorded

\* C6 as stated -- a failed destination create is per-event: the identifier of
\* an event none of whose creates completed is not added to the state nor to
\* the file saved at the end of the cycle, and every event is still processed.
C6_FailedCreateNotRecorded ==
    LoopDone
    => /\ Len(log) = Len(allEvents)
       /\ \A i \in LogIdx :
             (/\ log[i].op = "create"
              /\ ~log[i].stored
              /\ \A j \in LogIdx : log[j].id = log[i].id => ~log[j].stored)
             => /\ log[i].id \notin AddedKeys
                /\ (pc = "finished" => log[i].id \notin PersistedKeys(file) \ DOMAIN state0)

\* C7 as stated -- a mapping is recorded only on destination success: every
\* identifier added to the state in a cycle belongs to an event whose create
\* completed on the destination.
C7_RecordedOnlyOnSuccess ==
    \A id \in AddedKeys : \E i \in LogIdx : log[i].id = id /\ log[i].stored

\* C8 -- UID generation: every event that gets past the dedup check carries a
\* non-empty UID from then on, so no create is invoked with an empty UID, no
\* resource is named by one and no state entry has an empty value.
C8_UIDNonEmpty ==
    /\ \A i \in LogIdx : log[i].op # "skip" => log[i].uid # EmptyUID
    /\ \A id \in DOMAIN state : state[id] # EmptyUID
    /\ EmptyUID \notin DOMAIN dest
    /\ \A id \in PersistedKeys(file) : Unmarshal(file.data).m[id] # EmptyUID

\* C8 witness: an event that arrived without UID was created and recorded.
C8_Witness ==
    \E i \in LogIdx :
        /\ log[i].srcUID = EmptyUID
        /\ log[i].op = "create"
        /\ log[i].recorded
        /\ state[log[i].id] = log[i].uid

\* C9 -- A cycle of exactly a new event A without UID and an already synced
\* event B, no create failing: A is created once under a generated UID, B is
\* skipped, the state is the previous state plus A's identifier mapped to the
\* UID sent, and a successful save holds exactly that state.
C9_Scenario ==
    \A a, b \in LogIdx :
        (/\ pc = "finished"
         /\ ~dryRun
         /\ Len(allEvents) = 2
         /\ a # b
         /\ log[a].id \notin DOMAIN state0
         /\ log[a].srcUID = EmptyUID
         /\ log[b].id \in DOMAIN state0
         /\ \A i \in LogIdx : log[i].op = "create" => log[i].stored)
        => /\ log[a].op = "create"
           /\ log[a].uid[1] = "uuid"
           /\ log[b].op = "skip"
           /\ state = Put(state0, log[a].id, log[a].uid)
           /\ state[log[b].id] = state0[log[b].id]
           /\ dest[log[a].uid] = log[a].id
           /\ lastCycle.clean
                => Unmarshal(file.data) = [err |-> FALSE, nil |-> FALSE, m |-> state]

\* C9 witness: such a cycle has finished and its save succeeded.
C9_Witness ==
    /\ pc = "finished"
    /\ ~dryRun
    /\ lastCycle.clean
    /\ Len(log) = 2
    /\ \E a, b \in LogIdx :
          /\ log[a].id \notin DOMAIN state0
          /\ log[a].srcUID = EmptyUID
          /\ log[a].stored
          /\ log[b].id \in DOMAIN state0
          /\ log[b].op = "skip"

\* C10 -- State load at startup: with no state file the start succeeds with an
\* empty, usable mapping; with a file that does not parse the start fails
\* fatally: no Syncer, no cycle, nothing fetched, created or written.
C10_StateLoad ==
    [][pc = "down"
        => /\ ~file.exists
                => pc' = "ready" /\ state' = EmptyState /\ ~stateNil'
           /\ (file.exists /\ Unmarshal(file.data).err)
                => /\ pc' = "down"
                   /\ exitCode' = "fatal"
                   /\ file' = file
                   /\ dest' = dest
                   /\ invoked' = invoked
                   /\ fetched' = fetched]_vars

\* C10 witness: a start has failed on a state file a killed save left truncated.
C10_Witness ==
    /\ pc = "down"
    /\ exitCode = "fatal"
    /\ file.exists
    /\ Unmarshal(file.data).err

\* C11 -- A cycle never fails: Sync never returns an error, whatever fetches,
\* creates and the save did; it returns only after every fetched event was
\* handed to syncEvent, and the final save, failed or not, leaves the in-memory
\* state with every mapping of the cycle; the single-cycle command then exits
\* successfully, and a process that got past NewSyncer ends only by returning
\* successfully or by being killed.
C11_CycleNeverFails ==
    [][/\ ~syncErr'
       /\ (pc \in {"fetch", "sync"} /\ pc' = "finished")
            => /\ pc = "sync"
               /\ evIdx > Len(allEvents)
               /\ Len(log) = Len(allEvents)
               /\ state' = state
               /\ \A i \in LogIdx : log[i].recorded => log[i].id \in DOMAIN state'
       /\ (pc = "finished" /\ ~watchLoop /\ pc' = "down" /\ exitCode' # "killed")
            => exitCode' = "ok"
       /\ (pc # "down" /\ pc' = "down") => exitCode' \in {"ok", "killed"}
       /\ (exitCode' = "fatal" /\ pc = "down")
            => (file.exists /\ pc' = "down")]_vars

\* C11 witness: a single-cycle run is about to return after a cycle in which a
\* create failed, another event was recorded, and the save failed.
C11_Witness ==
    /\ pc = "finished"
    /\ ~watchLoop
    /\ ~dryRun
    /\ saved = "err"
    /\ ~syncErr
    /\ \E i \in LogIdx : log[i].op = "create" /\ log[i].err
    /\ \E i \in LogIdx : log[i].recorded /\ log[i].id \in AddedKeys

\* C12 as stated -- The save is atomic: a process killed at the end of a cycle
\* leaves the state file either as it was before the save or holding the
\* complete text of the new mapping, never a truncated or unparsable one.
C12_AtomicSave ==
    [][(pc # "down" /\ pc' = "down" /\ exitCode' = "killed")
        => \/ file' = file
           \/ /\ file'.exists
              /\ file'.data = MarshalIndent(state, stateNil)
              /\ ~Unmarshal(file'.data).err]_vars

\* C13 -- Save/Load round trip: when the save of a cycle has succeeded, the
\* file holds the text of exactly the in-memory mapping, and loadState, hence
\* NewSyncer in a new process, reads from it a mapping equal to that state.
C13_SaveLoadRoundTrip ==
    (pc = "finished" /\ saved = "ok")
    => /\ file.exists
       /\ file.data = MarshalIndent(state, stateNil)
       /\ PersistedKeys(file) = DOMAIN state
       /\ loadState(file, "ok") = [err |-> "none", nil |-> stateNil, m |-> state]
       /\ NewSyncer(file, "ok") = [err |-> FALSE, state |-> state, nil |-> stateNil]

\* C13 witness: a save has succeeded on a mapping of two entries with
\* different values.
C13_Witness ==
    /\ pc = "finished"
    /\ saved = "ok"
    /\ DOMAIN state = {"g1", "g2"}
    /\ state["g1"] # state["g2"]

\* C14 -- Cycles never overlap: a tick that arrives while a cycle runs only
\* waits in the channel and disturbs nothing; a tick is received, and the next
\* cycle begun, only when the previous call of Sync has returned; and a cycle
\* in progress only moves forward through its sources and events until then.
C14_NoOverlap ==
    [][/\ (tick' /\ ~tick)
            => /\ pc' = pc
               /\ state' = state
               /\ dest' = dest
               /\ file' = file
               /\ allEvents' = allEvents
               /\ srcIdx' = srcIdx
               /\ evIdx' = evIdx
               /\ log' = log
       /\ (tick /\ ~tick' /\ pc' # "down") => (pc = "finished" /\ pc' = "fetch")
       /\ (pc \in {"fetch", "sync"} /\ pc' # "down")
            => /\ pc' \in {"fetch", "sync", "finished"}
               /\ pc' = "fetch" => pc = "fetch"
               /\ srcIdx' >= srcIdx
               /\ evIdx' >= evIdx
               /\ Len(log') >= Len(log)
               /\ SubSeq(log', 1, Len(log)) = log]_vars

\* C14 witness: in the watch loop a tick is waiting while the cycle is still
\* between two of its events.
C14_Witness ==
    /\ watchLoop
    /\ tick
    /\ pc = "sync"
    /\ Len(log) >= 1
    /\ evIdx <= Len(allEvents)

\* C15 as stated -- Run-mode selection: a command whose state file loads runs a
\* first cycle, in the watch loop exactly when --watch was given, whatever
\* --once says.  In both modes the first cycle begins at once, without a tick.
\* In the watch loop every later cycle begins by receiving one tick, a waiting
\* tick always lets the next cycle begin, and the command never returns by
\* itself.  Outside the watch loop the command runs no second cycle: after the
\* first it returns successfully.
C15_RunMode ==
    [][/\ (pc = "down" /\ exitCode' # "fatal")
            => (pc' = "ready" /\ watchLoop' = watch')
       /\ (pc = "ready" /\ pc' # "down")
            => (pc' = "fetch" /\ ~tick /\ ~tick')
       /\ (pc = "finished" /\ watchLoop)
            => /\ tick => ENABLED BeginCycle
               /\ (pc' \notin {"finished", "down"})
                    => (pc' = "fetch" /\ tick /\ ~tick')
               /\ pc' = "down" => exitCode' = "killed"
       /\ (pc = "finished" /\ ~watchLoop)
            => /\ pc' = "down"
               /\ exitCode' \in {"ok", "killed"}
               /\ ENABLED Exit]_vars

\* Helpers of C16.  The position of x in the sequence q.
PosIn(q, x) == CHOOSE i \in 1..Len(q) : q[i] = x
\* The loop of Sync as a function of its inputs alone: the keys of the state
\* when the cycle begins, the fetched identifiers in order, for each event
\* whether the destination call (if made) reports an error, and the dry-run
\* flag.  It yields what is done with each event, in order, and the final keys.
RECURSIVE LoopOps(_, _, _, _)
LoopOps(keys, ids, errs, dry) ==
    IF ids = <<>> THEN [ops |-> <<>>, keys |-> keys]
    ELSE LET id == Head(ids)
             op == IF id \in keys THEN "skip" ELSE IF dry THEN "dryrun" ELSE "create"
             k2 == IF op = "create" /\ ~Head(errs) THEN keys \cup {id} ELSE keys
             rest == LoopOps(k2, Tail(ids), Tail(errs), dry)
         IN  [ops |-> <<op>> \o rest.ops, keys |-> rest.keys]

\* C16 -- Deterministic sequential processing: the sources are fetched one per
\* step in the order accounts first, then calendar IDs, each result appended
\* to the events fetched before; the events are handed to syncEvent one per
\* step in that order; and the sequence of skips and creates and the set of
\* state keys are a function of the keys at the start of the cycle, the
\* fetched identifiers and the results the destination reported, so two runs
\* with the same inputs produce the same creates and the same keys.
C16_DeterministicOrder ==
    [][/\ \A i, j \in 1..Len(Sources) :
             i < j => \/ PosIn(googleClients, Sources[i].client)
                            < PosIn(googleClients, Sources[j].client)
                      \/ /\ Sources[i].client = Sources[j].client
                         /\ PosIn(calendarIDs, Sources[i].cal)
                               < PosIn(calendarIDs, Sources[j].cal)
       /\ (pc = "fetch" /\ pc' # "down" /\ tick' = tick)
            => /\ srcIdx' = srcIdx + 1
               /\ SubSeq(allEvents', 1, Len(allEvents)) = allEvents
               /\ log' = <<>>
       /\ (pc = "sync" /\ pc' = "sync" /\ tick' = tick)
            => /\ Len(log) = evIdx - 1
               /\ evIdx' = evIdx + 1
               /\ log' = Append(log, log'[evIdx])
               /\ log'[evIdx].id = allEvents[evIdx].ID
               /\ \A i \in 1..Len(allEvents) : allEvents'[i].ID = allEvents[i].ID
       /\ pc' \in {"sync", "finished"}
            => LoopOps(DOMAIN state0',
                       [i \in 1..Len(log') |-> allEvents'[i].ID],
                       [i \in 1..Len(log') |-> log'[i].err],
                       dryRun')
                 = [ops |-> [i \in 1..Len(log') |-> log'[i].op],
                    keys |-> DOMAIN state']]_vars

\* C16 witness: a cycle over two accounts and two calendars has handled two
\* fetched events in order: the first created and recorded, the second, its
\* create failing, not recorded.
C16_Witness ==
    /\ Len(Sources) = 4
    /\ pc = "finished"
    /\ Len(log) = 2
    /\ log[1].id = "g2"
    /\ log[1].op = "create"
    /\ ~log[1].err
    /\ log[2].id = "g1"
    /\ log[2].err
    /\ DOMAIN state = {"g2"}

\* C17 -- Within one process the create succeeds at most once per source
\* identifier: a create that reports success records the identifier in the
\* in-memory state in the same step, a recorded identifier stays recorded and
\* is never handed to the destination again while the process lives, whether
\* the saves fail or not and whether the identifier comes once or several
\* times in a cycle.
C17_WrittenOncePerProcess ==
    [][\A id \in EventIDs :
          /\ okThisProc'[id] <= 1
          /\ (succ'[id] > succ[id] /\ pc' # "down")
                => (id \notin DOMAIN state /\ id \in DOMAIN state')
          /\ (pc # "down" /\ pc' # "down" /\ id \in DOMAIN state)
                => /\ id \in DOMAIN state'
                   /\ invoked'[id] = invoked[id]
                   /\ succ'[id] = succ[id]
                   /\ \A u \in DOMAIN dest' : dest'[u] = id => u \in DOMAIN dest]_vars

\* C17 witness: one cycle fetched the same identifier twice, wrote it at its
\* first occurrence and skipped the second, and the save of the cycle failed.
C17_Witness ==
    /\ pc = "finished"
    /\ saved = "err"
    /\ Len(log) = 2
    /\ log[1].id = log[2].id
    /\ log[1].op = "create"
    /\ log[1].stored
    /\ log[2].op = "skip"
    /\ log[1].id \notin PersistedKeys(file)

\* C18 as stated -- Retry on the next cycle: an event whose create failed stays
\* unrecorded and is attempted again when it is fetched again, so an event is
\* skipped only when the resource its mapping names was written to the
\* destination.
C18_FailedCreateRetried ==
    \A i \in LogIdx :
        log[i].op = "skip" => state[log[i].id] \in DOMAIN dest

\* C19 -- Phase ordering of a cycle: a source is fetched only while no event
\* of the cycle has been handled and no create attempted; a create is attempted
\* only after the last source was fetched and before the save; the state file
\* is written only when every fetched event has been handled, by the one
\* saveState call that ends a non-dry-run cycle (also one with nothing new or
\* with every create failed), never between events and never in a dry run; so
\* while a cycle runs, the mappings it added are not in the file.
C19_PhaseOrder ==
    [][/\ (pc = "fetch" /\ (srcIdx' # srcIdx \/ fetched' # fetched))
            => /\ log = <<>>
               /\ evIdx = 0
               /\ invoked' = invoked
               /\ dest' = dest
               /\ file' = file
       /\ fetched' # fetched => pc = "fetch"
       /\ (invoked' # invoked \/ dest' # dest)
            => /\ pc = "sync"
               /\ srcIdx = Len(Sources) + 1
               /\ saved = "none"
               /\ file' = file
       /\ (file' # file \/ saved' \notin {saved, "none"})
            => /\ pc = "sync"
               /\ evIdx > Len(allEvents)
               /\ Len(log) = Len(allEvents)
               /\ ~dryRun
               /\ saved = "none"
       /\ saved' # "none" => pc' = "finished"
       /\ (pc = "sync" /\ pc' = "finished") => (saved' = "none" <=> dryRun)
       /\ pc' \in {"fetch", "sync"} => AddedKeys' \cap PersistedKeys(file') = {}]_vars

\* C19 witness: a non-dry-run cycle in which every create failed has ended
\* with its one save.
C19_Witness ==
    /\ pc = "finished"
    /\ ~dryRun
    /\ saved = "ok"
    /\ Len(log) = 2
    /\ \A i \in LogIdx : log[i].op = "create" /\ log[i].err

\* C20 as stated -- Every configured source is fetched in every cycle: when the
\* fetch phase of a cycle is over, for each account and each calendar ID in
\* any element of the list handed to NewSyncer exactly one fetch was attempted,
\* whatever the earlier fetches of the cycle did.
C20_EverySourceFetched ==
    pc \in {"sync", "finished"}
    => \A c \in 1..Len(googleClients), e \in 1..Len(googleCalIDs) :
          \A k \in 1..Len(googleCalIDs[e]) :
              Cardinality({i \in 1..(srcIdx - 1) :
                              Sources[i] = [client |-> googleClients[c],
                                            cal |-> googleCalIDs[e][k]]}) = 1

\* C21 as stated -- No two creates that completed on the destination target
\* the same UID: of the events a cycle wrote, no two with different source
\* identifiers went to the same resource, so no entry written earlier was
\* replaced by a later create.
C21_OneCreatePerUID ==
    \A i, j \in LogIdx :
        (/\ i < j
         /\ log[i].op = "create" /\ log[i].stored
         /\ log[j].op = "create" /\ log[j].stored
         /\ log[i].id # log[j].id)
        => log[i].uid # log[j].uid

\* Helper of C22: the identifiers that reach toInternalEvents only on items
\* without Start.DateTime.
AllDayOnlyIDs ==
    {it.Id : it \in {x \in ItemsWithAllDay : x.DateTime = ""}}
        \ {it.Id : it \in {x \in ItemsWithAllDay : x.DateTime # ""}}

\* C22 -- All-day events are dropped at the source boundary: a fetch appends
\* one event for each item it returned except the items without a start
\* timestamp, in order after the events fetched before; an identifier that
\* only comes on all-day items is never among the events of a cycle, never
\* handed to the destination, never a key of the state or of the state file;
\* and the events that were appended are all processed.
C22_AllDayDropped ==
    [][/\ (pc = "fetch" /\ pc' # "down" /\ tick' = tick)
            => /\ Len(allEvents') - Len(allEvents)
                    = (fetched' - fetched) - (Len(dropped') - Len(dropped))
               /\ SubSeq(allEvents', 1, Len(allEvents)) = allEvents
               /\ SubSeq(dropped', 1, Len(dropped)) = dropped
               /\ \A i \in (Len(dropped) + 1)..Len(dropped') :
                     dropped'[i] \in AllDayOnlyIDs
       /\ \A id \in AllDayOnlyIDs :
             /\ \A i \in 1..Len(allEvents') : allEvents'[i].ID # id
             /\ \A i \in 1..Len(log') : log'[i].id # id
             /\ invoked'[id] = 0
             /\ id \notin DOMAIN state'
             /\ id \notin PersistedKeys(file')
             /\ \A u \in DOMAIN dest' : dest'[u] # id
       /\ LoopDone' => Len(log') = Len(allEvents')]_vars

\* C22 witness: the only fetch that succeeded in the cycle returned an all-day
\* event and a timed one: the first was dropped, the second written and
\* recorded.
C22_Witness ==
    /\ pc = "sync"
    /\ evIdx > Len(allEvents)
    /\ fetchFailures = {2}
    /\ dropped = <<"g1">>
    /\ Len(log) = 1
    /\ log[1].id = "g2"
    /\ log[1].op = "create"
    /\ log[1].stored
    /\ log[1].recorded

\* C23 -- The state only grows and is write-once per key: no step of a living
\* process removes a key or changes the value of a key, and a step that
\* changes the state adds one mapping whose key was absent; this holds through
\* failed fetches, failed creates and failed saves.
C23_GrowOnlyWriteOnce ==
    [][(pc # "down" /\ pc' # "down")
        => /\ \A k \in DOMAIN state : k \in DOMAIN state' /\ state'[k] = state[k]
           /\ state' # state
                => /\ AtEvent
                   /\ allEvents[evIdx].ID \notin DOMAIN state
                   /\ DOMAIN state' = DOMAIN state \cup {allEvents[evIdx].ID}]_vars

\* C23 witness: a process that loaded the mapping of g2 has ended a cycle with
\* a failed create and a failed save; g2 is mapped as loaded and g1 was added.
C23_Witness ==
    /\ pc = "finished"
    /\ saved = "err"
    /\ \E i \in LogIdx : log[i].err
    /\ "g2" \in DOMAIN state0
    /\ state["g2"] = SyncedBefore.g2
    /\ "g1" \in AddedKeys
    /\ "g2" \notin {log[i].id : i \in LogIdx}

\* C24 as stated -- The state NewSyncer loaded is a usable map: a syncEvent
\* call whose create reported success records the mapping and the loop goes
\* on; the process does not end between the create and the recording.
C24_LoadedStateUsable ==
    [][(AtEvent /\ succ' # succ)
        => /\ pc' = "sync"
           /\ evIdx' = evIdx + 1
           /\ allEvents[evIdx].ID \in DOMAIN state']_vars

====
